---------------------------- MODULE Spec2Model ----------------------------
(***************************************************************************)
(* Model of src/main.py: the audio upload / list service.                  *)
(*                                                                         *)
(* Strings are sequences of one-character strings, so that formatting a    *)
(* filename and matching it against FILENAME_RE are real conversions.      *)
(* An epoch value e is held as the pair (q, r) with e = 1000*q + r and     *)
(* 0 <= r < 1000, because the timestamps of the program (>= 10^12) do not  *)
(* fit the 32-bit integers of TLC.                                         *)
(***************************************************************************)
EXTENDS Integers, Sequences, FiniteSets, TLC

VARIABLES
    files,      \* UPLOAD_DIR: filename -> content (a sequence of bytes)
    resp,       \* the response in flight to the client, or NoResp
    uploaded,   \* the last successful upload's [filename, size], or NoUpload
    cin,        \* codec check: the (start, end, deviceId, name) being encoded
    cout,       \* codec check: the encoded filename and its decoding
    tin,        \* timestamp check: the epoch value being normalised
    tout        \* timestamp check: the result of ts_to_local_datetime

vars == <<files, resp, uploaded, cin, cout, tin, tout>>

----------------------------------------------------------------------------
(* Characters and decimal digits                                           *)

Digits == <<"0", "1", "2", "3", "4", "5", "6", "7", "8", "9">>

DigitSet == {Digits[i] : i \in 1..10}

DigitChar(n) == Digits[n + 1]

DigitVal(c) == CHOOSE i \in 0..9 : Digits[i + 1] = c

HexLetters == {"A", "B", "C", "D", "E", "F", "a", "b", "c", "d", "e", "f"}

\* [A-Fa-f0-9]
IsHex(c) == c \in DigitSet \cup HexLetters

\* str.lower() on the characters the model uses
LowerChar(c) ==
    CASE c = "A" -> "a" [] c = "B" -> "b" [] c = "C" -> "c" [] c = "D" -> "d"
      [] c = "E" -> "e" [] c = "F" -> "f" [] c = "Z" -> "z" [] c = "W" -> "w"
      [] c = "V" -> "v" [] OTHER -> c

Lower(s) == [i \in 1..Len(s) |-> LowerChar(s[i])]

RECURSIVE ZeroPad(_, _)
\* the w lowest decimal digits of n, zero padded ("%02d", "{us:06d}")
ZeroPad(n, w) ==
    IF w = 0 THEN <<>> ELSE Append(ZeroPad(n \div 10, w - 1), DigitChar(n % 10))

RECURSIVE Decimal(_)
\* the decimal digits of n >= 0 without padding
Decimal(n) ==
    IF n < 10 THEN <<DigitChar(n)>> ELSE Append(Decimal(n \div 10), DigitChar(n % 10))

RECURSIVE ToInt(_)
\* int() of a string of decimal digits
ToInt(s) ==
    IF s = <<>> THEN 0 ELSE 10 * ToInt(SubSeq(s, 1, Len(s) - 1)) + DigitVal(s[Len(s)])

AllDigits(s, a, b) == \A i \in a..b : s[i] \in DigitSet

----------------------------------------------------------------------------
(* datetime                                                                *)

MINYEAR == 1
MAXYEAR == 9999

IsLeap(y) == (y % 4 = 0) /\ ((y % 100 # 0) \/ (y % 400 = 0))

DaysInMonth(y, m) ==
    IF m = 2 THEN (IF IsLeap(y) THEN 29 ELSE 28)
    ELSE IF m \in {4, 6, 9, 11} THEN 30 ELSE 31

\* datetime(year, month, day, hour, minute, second, microsecond)
DateTime(y, mo, d, h, mi, s, us) ==
    [year |-> y, month |-> mo, day |-> d, hour |-> h, minute |-> mi,
     second |-> s, microsecond |-> us]

\* the proleptic Gregorian date of the day `days` days after 1970-01-01
CivilFromDays(days) ==
    LET z   == days + 719468
        era == z \div 146097
        doe == z - era * 146097
        yoe == (doe - doe \div 1460 + doe \div 36524 - doe \div 146096) \div 365
        doy == doe - (365 * yoe + yoe \div 4 - yoe \div 100)
        mp  == (5 * doy + 2) \div 153
        d   == doy - (153 * mp + 2) \div 5 + 1
        m   == IF mp < 10 THEN mp + 3 ELSE mp - 9
        y   == yoe + era * 400 + (IF m <= 2 THEN 1 ELSE 0)
    IN  [year |-> y, month |-> m, day |-> d]

\* the server's local timezone as a fixed offset east of UTC, in seconds
TzOffsetSeconds == 0

\* datetime.fromtimestamp of the instant `days` days, `sod` seconds and `us`
\* microseconds after the epoch: a naive local datetime, or ValueError when the
\* year leaves MINYEAR..MAXYEAR (the lower end is probed one day early)
FromTimestamp(days, sod, us) ==
    LET local == sod + TzOffsetSeconds
        ld    == days + local \div 86400
        ls    == local % 86400
        date  == CivilFromDays(ld)
        prev  == CivilFromDays(ld - 1)
    IN  IF prev.year < MINYEAR \/ date.year > MAXYEAR
        THEN [kind |-> "raise"]
        ELSE [kind |-> "ok",
              dt |-> DateTime(date.year, date.month, date.day,
                              ls \div 3600, (ls % 3600) \div 60, ls % 60, us)]

\* a < b on naive datetimes
DtLess(a, b) ==
    LET da == (a.year * 100 + a.month) * 100 + a.day
        db == (b.year * 100 + b.month) * 100 + b.day
        ta == (a.hour * 60 + a.minute) * 60 + a.second
        tb == (b.hour * 60 + b.minute) * 60 + b.second
    IN  \/ da < db
        \/ da = db /\ ta < tb
        \/ da = db /\ ta = tb /\ a.microsecond < b.microsecond

----------------------------------------------------------------------------
(* ts_to_local_datetime                                                    *)

\* 1_000_000_000_000 / 1000: the threshold on q of an epoch value 1000*q + r
MsThresholdQ == 1000000000

Epoch(q, r) == [num |-> TRUE, q |-> q, r |-> r]

NonNumeric == [num |-> FALSE, q |-> 0, r |-> 0]

\* the unit chosen by the absolute value of ts_int
ts_to_local_datetime_abs(ts) ==
    IF ~ts.num
    THEN [kind |-> "http400"]
    ELSE IF ts.q >= MsThresholdQ \/ ts.q < -MsThresholdQ
            \/ (ts.q = -MsThresholdQ /\ ts.r = 0)
         THEN FromTimestamp(ts.q \div 86400, ts.q % 86400, ts.r * 1000)
         ELSE LET low == 1000 * (ts.q % 86400) + ts.r
              IN  FromTimestamp(1000 * (ts.q \div 86400) + low \div 86400,
                                low % 86400, 0)

\* int(ts) failing is HTTP 400; ts_int >= 10^12 is milliseconds (ts_int /
\* 1000.0), anything else seconds (float(ts_int)); then datetime.fromtimestamp
ts_to_local_datetime(ts) ==
    IF ~ts.num
    THEN [kind |-> "http400"]
    ELSE IF ts.q >= MsThresholdQ
         THEN FromTimestamp(ts.q \div 86400, ts.q % 86400, ts.r * 1000)
         ELSE LET low == 1000 * (ts.q % 86400) + ts.r
              IN  FromTimestamp(1000 * (ts.q \div 86400) + low \div 86400,
                                low % 86400, 0)

----------------------------------------------------------------------------
(* The filename codec                                                      *)

US == <<"_">>

\* dt.strftime("%Y%m%d_%H%M%S_%f")[:-3]; %Y is not zero padded (glibc)
StrfMillis(dt) ==
    LET full == Decimal(dt.year) \o ZeroPad(dt.month, 2) \o ZeroPad(dt.day, 2) \o US
                \o ZeroPad(dt.hour, 2) \o ZeroPad(dt.minute, 2)
                \o ZeroPad(dt.second, 2) \o US \o ZeroPad(dt.microsecond, 6)
    IN  SubSeq(full, 1, Len(full) - 3)

RECURSIVE Basename(_)
\* os.path.basename: what follows the last "/"
Basename(s) ==
    IF s = <<>> THEN <<>>
    ELSE IF s[Len(s)] = "/" THEN <<>>
    ELSE Append(Basename(SubSeq(s, 1, Len(s) - 1)), s[Len(s)])

\* str.replace(":", "").replace("-", "")
StripMacSeparators(s) == SelectSeq(s, LAMBDA c : c \notin {":", "-"})

\* f"{start_str}_{end_str}_{mac_clean}_{orig_name}"
FinalFilename(start_dt, end_dt, mac, name) ==
    StrfMillis(start_dt) \o US \o StrfMillis(end_dt) \o US
    \o StripMacSeparators(mac) \o US \o Basename(name)

\* \d{8}_\d{6}_\d{3} at offset o of s
StampAt(s, o) ==
    /\ Len(s) >= o + 19
    /\ AllDigits(s, o + 1, o + 8) /\ s[o + 9] = "_"
    /\ AllDigits(s, o + 10, o + 15) /\ s[o + 16] = "_"
    /\ AllDigits(s, o + 17, o + 19)

\* the end of the longest run of hex characters of s that starts at i (i - 1
\* when there is none)
HexRunEnd(s, i) ==
    CHOOSE k \in (i - 1)..Len(s) :
        /\ \A j \in i..k : IsHex(s[j])
        /\ (k = Len(s) \/ ~IsHex(s[k + 1]))

\* FILENAME_RE.match: the groups, or no match.  `.` matches no line feed and
\* `$` also matches just before a final line feed.
FILENAME_RE(s) ==
    IF ~(StampAt(s, 0) /\ Len(s) >= 21 /\ s[20] = "_" /\ StampAt(s, 20)
         /\ Len(s) >= 41 /\ s[40] = "_")
    THEN [match |-> FALSE]
    ELSE LET k    == HexRunEnd(s, 41)
             tail == SubSeq(s, k + 2, Len(s))
             body == IF tail # <<>> /\ tail[Len(tail)] = "\n"
                     THEN SubSeq(tail, 1, Len(tail) - 1) ELSE tail
         IN  IF k < 41 \/ k + 1 > Len(s) \/ s[k + 1] # "_"
                \/ body = <<>> \/ \E i \in 1..Len(body) : body[i] = "\n"
             THEN [match |-> FALSE]
             ELSE [match |-> TRUE, start |-> SubSeq(s, 1, 19),
                   end |-> SubSeq(s, 21, 39), mac |-> SubSeq(s, 41, k),
                   rest |-> body]

\* parse_ms_dt with the milliseconds taken for microseconds
parse_ms_dt_unscaled(s) ==
    LET y  == ToInt(SubSeq(s, 1, 4))
        mo == ToInt(SubSeq(s, 5, 6))
        d  == ToInt(SubSeq(s, 7, 8))
        h  == ToInt(SubSeq(s, 10, 11))
        mi == ToInt(SubSeq(s, 12, 13))
        se == ToInt(SubSeq(s, 14, 15))
        us == ToInt(SubSeq(s, 17, 19))
    IN  IF /\ y >= MINYEAR /\ mo \in 1..12 /\ d >= 1 /\ d <= DaysInMonth(y, mo)
           /\ h <= 23 /\ mi <= 59 /\ se <= 59
        THEN [kind |-> "ok", dt |-> DateTime(y, mo, d, h, mi, se, us)]
        ELSE [kind |-> "raise"]

\* parse_ms_dt: strptime of YYYYMMDD_HHMMSS_mmm, ValueError on a field that is
\* no date or time
parse_ms_dt(s) ==
    LET y  == ToInt(SubSeq(s, 1, 4))
        mo == ToInt(SubSeq(s, 5, 6))
        d  == ToInt(SubSeq(s, 7, 8))
        h  == ToInt(SubSeq(s, 10, 11))
        mi == ToInt(SubSeq(s, 12, 13))
        se == ToInt(SubSeq(s, 14, 15))
        us == ToInt(SubSeq(s, 17, 19)) * 1000
    IN  IF /\ y >= MINYEAR /\ mo \in 1..12 /\ d >= 1 /\ d <= DaysInMonth(y, mo)
           /\ h <= 23 /\ mi <= 59 /\ se <= 59
        THEN [kind |-> "ok", dt |-> DateTime(y, mo, d, h, mi, se, us)]
        ELSE [kind |-> "raise"]

\* lines 79-88 of parse_filename: the record built from the match m
Decoded(filename, m, start_dt, end_dt) ==
    IF start_dt.kind # "ok" \/ end_dt.kind # "ok"
    THEN [kind |-> "raise"]
    ELSE [kind |-> "ok", filename |-> filename, mac |-> m.mac,
          startLocal |-> start_dt.dt, endLocal |-> end_dt.dt, rest |-> m.rest]

\* lines 70-88 of parse_filename, m being FILENAME_RE.match(filename)
ParseMatch(filename, m) ==
    IF ~m.match THEN [kind |-> "none"]
    ELSE Decoded(filename, m, parse_ms_dt(m.start), parse_ms_dt(m.end))

\* parse_filename: None, the decoded record, or the ValueError of parse_ms_dt
parse_filename(filename) == ParseMatch(filename, FILENAME_RE(filename))


RECURSIVE EndsWith(_, _)
EndsWith(s, suffix) ==
    \/ suffix = <<>>
    \/ /\ s # <<>>
       /\ s[Len(s)] = suffix[Len(suffix)]
       /\ EndsWith(SubSeq(s, 1, Len(s) - 1), SubSeq(suffix, 1, Len(suffix) - 1))

guess_media_type(filename) ==
    LET lower == Lower(filename)
    IN  IF EndsWith(lower, <<".", "w", "a", "v">>) THEN "audio/wav"
        ELSE IF EndsWith(lower, <<".", "m", "p", "3">>) THEN "audio/mpeg"
        ELSE IF EndsWith(lower, <<".", "m", "4", "a">>) THEN "audio/mp4"
        ELSE IF EndsWith(lower, <<".", "a", "a", "c">>) THEN "audio/aac"
        ELSE "application/octet-stream"

----------------------------------------------------------------------------
(* POST /thingx/api/file/upload/audio                                      *)

Required == {"userId", "name", "startTime", "endTime", "mac", "size"}

\* the metadata part: bytes that are not UTF-8, text that is not JSON, or a JSON
\* value: one that `in` cannot be applied to (null, a number, a boolean; kind
\* "null"), an array of strings (`has` its elements), an object (`has` its
\* keys)
Meta(kind, has, name, mac, startTime, endTime) ==
    [kind |-> kind, has |-> has, name |-> name, mac |-> mac,
     startTime |-> startTime, endTime |-> endTime]

HasSeparator(s) == \E i \in 1..Len(s) : s[i] = "/"

UploadError(code) ==
    [code |-> code, filename |-> <<>>, size |-> 0, opened |-> FALSE, write |-> FALSE]

\* lines 131-141 of upload_audio
final_filename(meta, start_dt, end_dt) ==
    FinalFilename(start_dt, end_dt, meta.mac, meta.name)

\* upload_audio (below): the HTTP status, the derived filename, whether open() was
\* reached with it and whether the file was written.  UPLOAD_DIR holds no
\* sub-directories, so open() of a name with a separator is FileNotFoundError.
Save(fn, audio) ==
    IF HasSeparator(fn)
    THEN [code |-> 500, filename |-> fn, size |-> 0, opened |-> TRUE, write |-> FALSE]
    ELSE [code |-> 200, filename |-> fn, size |-> Len(audio), opened |-> TRUE,
          write |-> TRUE]

\* lines 134-172, start_dt and end_dt being the two conversions in their order
Convert(meta, audio, start_dt, end_dt) ==
    IF start_dt.kind = "http400" THEN UploadError(400)
    ELSE IF start_dt.kind = "raise" THEN UploadError(500)
    ELSE IF end_dt.kind = "http400" THEN UploadError(400)
    ELSE IF end_dt.kind = "raise" THEN UploadError(500)
    ELSE Save(final_filename(meta, start_dt.dt, end_dt.dt), audio)

upload_audio(meta, audio) ==
    IF meta.kind \in {"notutf8", "notjson"} THEN UploadError(400)
    ELSE IF meta.kind = "null" THEN UploadError(500)
    ELSE IF Required \ meta.has # {} THEN UploadError(400)
    ELSE IF meta.kind = "array" THEN UploadError(500)
    ELSE Convert(meta, audio, ts_to_local_datetime(meta.startTime),
                 ts_to_local_datetime(meta.endTime))

----------------------------------------------------------------------------
(* GET /thingx/api/audio/list                                              *)

\* limit: int = 500
DefaultLimit == 500

\* from_time / to_time after datetime.fromisoformat: absent (None or ""), not
\* ISO, a naive datetime, or a datetime with a UTC offset
NoTime == [kind |-> "none"]
BadTime == [kind |-> "bad"]
AwareTime == [kind |-> "aware"]
NaiveTime(dt) == [kind |-> "naive", dt |-> dt]

Max(a, b) == IF a >= b THEN a ELSE b
Min(a, b) == IF a <= b THEN a ELSE b

\* the comparison without .lower()
mac_differs_case_sensitive(info, mac) == info.mac # mac

\* info["mac"].lower() != mac.lower()
mac_differs(info, mac) == Lower(info.mac) # Lower(mac)

\* the start compared where the end is meant
before_from_containment(info, from_dt) == DtLess(info.startLocal, from_dt)

\* info["endLocal"] < from_dt
before_from(info, from_dt) == DtLess(info.endLocal, from_dt)

\* info["startLocal"] > to_dt
after_to(info, to_dt) == DtLess(to_dt, info.startLocal)

Item(info, size) ==
    [filename |-> info.filename, mac |-> info.mac, start_dt |-> info.startLocal,
     end_dt |-> info.endLocal, size |-> size,
     contentType |-> guess_media_type(info.filename)]

\* one pass of the loop over os.listdir: "skip", "raise" (the ValueError of
\* parse_filename, the TypeError of comparing a naive with an aware datetime)
\* or "keep"
Visit(info, mac, from_time, to_time) ==
    IF info.kind = "raise" THEN "raise"
    ELSE IF info.kind = "none" THEN "skip"
    ELSE IF mac # <<>> /\ mac_differs(info, mac) THEN "skip"
    ELSE IF from_time.kind = "aware" THEN "raise"
    ELSE IF from_time.kind = "naive" /\ before_from(info, from_time.dt) THEN "skip"
    ELSE IF to_time.kind = "aware" THEN "raise"
    ELSE IF to_time.kind = "naive" /\ after_to(info, to_time.dt) THEN "skip"
    ELSE "keep"

\* the items after one more name: `before` is the loop so far, v the visit
Step(before, info, size, v) ==
    IF before.raised \/ v = "skip" THEN before
    ELSE IF v = "raise" THEN [raised |-> TRUE, items |-> <<>>]
    ELSE [raised |-> FALSE, items |-> Append(before.items, Item(info, size))]

StepName(before, info, size, mac, from_time, to_time) ==
    Step(before, info, size, Visit(info, mac, from_time, to_time))

RECURSIVE Collect(_, _, _, _, _)
\* the loop of lines 209-237 over the names in listdir order
Collect(dir, order, mac, from_time, to_time) ==
    IF order = <<>> THEN [raised |-> FALSE, items |-> <<>>]
    ELSE StepName(Collect(dir, SubSeq(order, 1, Len(order) - 1), mac, from_time, to_time),
                  parse_filename(order[Len(order)]), Len(dir[order[Len(order)]]),
                  mac, from_time, to_time)

\* x placed after every element that does not start later: a stable insertion
InsertByStart(sorted, x) ==
    LET n == Len(sorted)
        pos == IF \A i \in 1..n : ~DtLess(x.start_dt, sorted[i].start_dt) THEN n
               ELSE (CHOOSE i \in 1..n :
                        /\ DtLess(x.start_dt, sorted[i].start_dt)
                        /\ \A j \in 1..(i - 1) : ~DtLess(x.start_dt, sorted[j].start_dt)) - 1
    IN  SubSeq(sorted, 1, pos) \o <<x>> \o SubSeq(sorted, pos + 1, n)

RECURSIVE SortByStart(_)
\* items.sort(key=lambda x: x["_start_dt"])
SortByStart(items) ==
    IF items = <<>> THEN <<>>
    ELSE InsertByStart(SortByStart(SubSeq(items, 1, Len(items) - 1)), items[Len(items)])

\* items[:k] of Python, for any integer k
Slice(items, k) ==
    IF k >= 0 THEN SubSeq(items, 1, Min(k, Len(items)))
    ELSE SubSeq(items, 1, Max(0, Len(items) + k))

\* items[:limit]
truncate_no_floor(items, limit) == Slice(items, limit)

\* items[: max(1, limit)]
truncate(items, limit) == Slice(items, Max(1, limit))

\* the count taken after the truncation
count_of_data(items, limit) == Len(truncate(items, limit))

\* "count": len(items)
count_of(items, limit) == Len(items)

\* lines 239-245: sort, count, truncate
Sorted(items, limit) ==
    [code |-> 200, count |-> count_of(items, limit), data |-> truncate(items, limit)]

Respond(got, limit) ==
    IF got.raised THEN [code |-> 500, count |-> 0, data |-> <<>>]
    ELSE Sorted(SortByStart(got.items), limit)

\* list_audio over the directory `dir` read in the order `order`
list_audio(dir, order, mac, from_time, to_time, limit) ==
    IF from_time.kind = "bad" \/ to_time.kind = "bad"
    THEN [code |-> 400, count |-> 0, data |-> <<>>]
    ELSE Respond(Collect(dir, order, mac, from_time, to_time), limit)

----------------------------------------------------------------------------
(* Inputs                                                                  *)

\* the most entries UPLOAD_DIR holds in the model
MaxFiles == 2

\* the longest original name of the codec check
MaxNameLen == 2

\* 2026-02-02 10:00:00 and 10:30:00 as seconds, and 10:20:00.123 and
\* 10:40:00.456 as milliseconds
Sec1000 == Epoch(1770026, 400)
Sec1030 == Epoch(1770028, 200)
Ms1020 == Epoch(1770027600, 123)
Ms1040 == Epoch(1770028800, 456)
\* 999999999999 seconds: the year 33658
TooLate == Epoch(999999999, 999)

UploadTimes == {<<Sec1000, Sec1030>>, <<Ms1020, Ms1040>>}

BadUploadTimes ==
    {<<NonNumeric, Sec1030>>, <<Sec1000, NonNumeric>>, <<TooLate, NonNumeric>>,
     <<TooLate, Sec1030>>}

UploadMacs == {<<"A", "B">>, <<"a", ":", "c">>}

\* device ids that are not hexadecimal
OddMacs == {<<"Z", "Z">>, <<"a", "/", "b">>}

UploadNames == {<<"f">>, <<"d", "/", "f">>}

AudioInputs == {<<7>>, <<7, 7>>}

MetaInputs ==
    {Meta(k, {}, <<>>, <<>>, NonNumeric, NonNumeric) : k \in {"notutf8", "notjson", "null", "array"}}
    \cup {Meta("array", Required, <<>>, <<>>, NonNumeric, NonNumeric)}
    \cup {Meta("object", Required \ {f}, <<"f">>, <<"A", "B">>, Sec1000, Sec1030) : f \in Required}
    \cup {Meta("object", Required, <<"f">>, <<"A", "B">>, t[1], t[2]) : t \in BadUploadTimes}
    \cup {Meta("object", Required, <<"f">>, m, Sec1000, Sec1030) : m \in OddMacs}
    \cup {Meta("object", Required, n, m, t[1], t[2]) :
            n \in UploadNames, m \in UploadMacs, t \in UploadTimes}

At(h, mi, us) == DateTime(2026, 2, 2, h, mi, 0, us)

ListMacs == {<<>>, <<"a", "b">>, <<"A", "C">>}

ListWindows ==
    {<<NoTime, NoTime>>, <<BadTime, NoTime>>, <<NoTime, AwareTime>>,
     <<NaiveTime(At(10, 20, 0)), NoTime>>, <<NaiveTime(At(10, 31, 0)), NoTime>>,
     <<NoTime, NaiveTime(At(10, 10, 0))>>}

ListLimits == {-1, 0, 1, 2, DefaultLimit}

\* files the service did not write: a name the grammar rejects, and one whose
\* digit groups have the right shape with month 13
BadMonthName ==
    <<"2", "0", "2", "6", "1", "3", "0", "4", "_", "1", "0", "0", "0", "0", "0", "_",
      "0", "0", "0", "_", "2", "0", "2", "6", "0", "2", "0", "2", "_", "1", "0", "3",
      "0", "0", "0", "_", "0", "0", "0", "_", "A", "B", "_", "f">>

ForeignNames == {<<"n", ".", "t", "x", "t">>, BadMonthName}

\* the orders os.listdir may return the names of S in
Orders(S) ==
    {o \in [1..Cardinality(S) -> S] : \A i, j \in 1..Cardinality(S) : o[i] = o[j] => i = j}

----------------------------------------------------------------------------
(* The service                                                             *)

NoResp == [op |-> "none"]
NoUpload == [set |-> FALSE]
Idle == [set |-> FALSE]

InitService ==
    /\ files = <<>>
    /\ resp = NoResp
    /\ uploaded = NoUpload

Init ==
    /\ InitService
    /\ cin = Idle /\ cout = Idle /\ tin = Idle /\ tout = Idle

\* a client posts (file, metadata): the effect of an upload whose handler
\* ended as r
Uploaded(meta, audio, r) ==
    /\ r.write => (r.filename \in DOMAIN files \/ Cardinality(DOMAIN files) < MaxFiles)
    /\ files' = IF r.write
                THEN [n \in DOMAIN files \cup {r.filename} |->
                        IF n = r.filename THEN audio ELSE files[n]]
                ELSE files
    /\ uploaded' = IF r.code = 200
                   THEN [set |-> TRUE, filename |-> r.filename, size |-> r.size]
                   ELSE NoUpload
    /\ resp' = [op |-> "upload", meta |-> meta, audio |-> audio, code |-> r.code,
                filename |-> r.filename, size |-> r.size, opened |-> r.opened]

Upload ==
    /\ resp = NoResp
    /\ \E meta \in MetaInputs, audio \in AudioInputs :
         Uploaded(meta, audio, upload_audio(meta, audio))
    /\ UNCHANGED <<cin, cout, tin, tout>>

Listed(mac, from_time, to_time, limit, r) ==
    resp' = [op |-> "list", mac |-> mac, from_time |-> from_time, to_time |-> to_time,
             limit |-> limit, code |-> r.code, count |-> r.count, data |-> r.data]

\* a client lists; os.listdir returns the names in some order
List ==
    /\ resp = NoResp
    /\ \E mac \in ListMacs, w \in ListWindows, limit \in ListLimits,
          order \in Orders(DOMAIN files) :
         Listed(mac, w[1], w[2], limit,
                list_audio(files, order, mac, w[1], w[2], limit))
    /\ UNCHANGED <<files, uploaded, cin, cout, tin, tout>>

\* another program puts a file of its own into UPLOAD_DIR
Foreign ==
    /\ resp = NoResp
    /\ Cardinality(DOMAIN files) < MaxFiles
    /\ \E n \in ForeignNames \ DOMAIN files :
         files' = [m \in DOMAIN files \cup {n} |-> IF m = n THEN <<7>> ELSE files[m]]
    /\ uploaded' = NoUpload
    /\ UNCHANGED <<resp, cin, cout, tin, tout>>

\* the client takes the response
Receive ==
    /\ resp # NoResp
    /\ resp' = NoResp
    /\ UNCHANGED <<files, uploaded, cin, cout, tin, tout>>

Next == Upload \/ List \/ Foreign \/ Receive

Spec == Init /\ [][Next]_vars

----------------------------------------------------------------------------
(* The codec alone: encode as upload_audio does, then parse_filename        *)

CodecInstants ==
    {At(10, 0, 0), At(10, 20, 123000), DateTime(2024, 2, 29, 23, 59, 59, 999000),
     DateTime(999, 12, 31, 23, 59, 59, 0)}

CodecDeviceIds == {<<"A", "B">>, <<"4", "c", "F">>}

NameAlphabet == {"f", "_", "/", "\n"}

CodecNames == UNION {[1..n -> NameAlphabet] : n \in 0..MaxNameLen}

InitCodec ==
    /\ InitService
    /\ cin \in {[set |-> TRUE, start |-> a, end |-> b, mac |-> m, name |-> n] :
                  a \in CodecInstants, b \in CodecInstants, m \in CodecDeviceIds,
                  n \in CodecNames}
    /\ cout = Idle /\ tin = Idle /\ tout = Idle

Encoded(fn) == [set |-> TRUE, filename |-> fn, decoded |-> parse_filename(fn)]

Encode ==
    /\ cin.set /\ ~cout.set
    /\ cout' = Encoded(final_filename(cin, cin.start, cin.end))
    /\ UNCHANGED <<files, resp, uploaded, cin, tin, tout>>

SpecCodec == InitCodec /\ [][Encode]_vars

----------------------------------------------------------------------------
(* ts_to_local_datetime alone                                              *)

\* epoch values 1000*q + r around the thresholds and the ends of the range
TsQ ==
    {-1000000001, -1000000000, -999999999, -62135511, -62135510, -1, 0, 1, 999999,
     1000000, 1770026, 2147482, 253402300, 253402301, 999999999, 1000000000,
     1770026400, 2147483647}

TsR == {0, 1, 400, 999}

InitTs ==
    /\ InitService
    /\ cin = Idle /\ cout = Idle
    /\ tin \in {[set |-> TRUE, ts |-> Epoch(q, r)] : q \in TsQ, r \in TsR}
    /\ tout = Idle

Normalize ==
    /\ tin.set /\ ~tout.set
    /\ tout' = [set |-> TRUE, result |-> ts_to_local_datetime(tin.ts)]
    /\ UNCHANGED <<files, resp, uploaded, cin, cout, tin>>

SpecTs == InitTs /\ [][Normalize]_vars

----------------------------------------------------------------------------
(* Properties                                                              *)

ListOk == resp.op = "list" /\ resp.code = 200

DataNames == {resp.data[i].filename : i \in 1..Len(resp.data)}

Unfiltered ==
    /\ resp.mac = <<>> /\ resp.from_time = NoTime /\ resp.to_time = NoTime
    /\ resp.limit = DefaultLimit

Decodable(f) == parse_filename(f).kind = "ok"

\* the device id of f equals mac up to the case of its letters
SameDevice(f, mac) == Lower(parse_filename(f).mac) = Lower(mac)

\* the interval of f overlaps the window: end >= from and start <= to
Overlaps(f, from_time, to_time) ==
    /\ from_time.kind = "naive" => ~DtLess(parse_filename(f).endLocal, from_time.dt)
    /\ to_time.kind = "naive" => ~DtLess(to_time.dt, parse_filename(f).startLocal)

\* the names of the directory that survive the filters of the request answered
Survivors ==
    {f \in DOMAIN files :
        /\ Decodable(f)
        /\ resp.mac # <<>> => SameDevice(f, resp.mac)
        /\ Overlaps(f, resp.from_time, resp.to_time)}

NotTruncated == Max(1, resp.limit) >= Cardinality(DOMAIN files)

Entry1000to1030(f) ==
    /\ Decodable(f)
    /\ parse_filename(f).startLocal = At(10, 0, 0)
    /\ parse_filename(f).endLocal = At(10, 30, 0)

\* C1 (as claimed): after uploads only, an unfiltered list that follows a
\* successful upload of B bytes as F answers 200 with F exactly once in data,
\* its size B.
C1_UploadThenList ==
    (/\ resp.op = "list" /\ uploaded.set /\ Unfiltered
     /\ DOMAIN files \cap ForeignNames = {})
    => /\ resp.code = 200
       /\ Cardinality({i \in 1..Len(resp.data) :
                          resp.data[i].filename = uploaded.filename}) = 1
       /\ \A i \in 1..Len(resp.data) :
             resp.data[i].filename = uploaded.filename
                => resp.data[i].size = uploaded.size

RoundTrips ==
    /\ cout.decoded.kind = "ok"
    /\ cout.decoded.startLocal = cin.start
    /\ cout.decoded.endLocal = cin.end
    /\ cout.decoded.mac = cin.mac
    /\ cout.decoded.rest = cin.name

Contains(s, c) == \E i \in 1..Len(s) : s[i] = c

\* C2 (as claimed, read in its favour: years of four digits and a name without
\* the delimiter "_"): for a hexadecimal device id, decoding the encoded
\* filename gives back start, end, device id and name.
C2_RoundTripStated ==
    (/\ cout.set /\ ~Contains(cin.name, "_")
     /\ cin.start.year >= 1000 /\ cin.end.year >= 1000)
    => RoundTrips

\* C2 (amended): the round trip holds for a hexadecimal device id, years from
\* 1000 on, and a name that is not empty and holds no "/" and no line feed
\* (underscores in the name are harmless).
C2_RoundTrip ==
    (/\ cout.set /\ cin.name # <<>>
     /\ ~Contains(cin.name, "/") /\ ~Contains(cin.name, "\n")
     /\ cin.start.year >= 1000 /\ cin.end.year >= 1000)
    => RoundTrips

C2_Witness ==
    /\ cout.set /\ cin.name = <<"f", "_">> /\ cin.mac = <<"4", "c", "F">>
    /\ cin.start = At(10, 20, 123000) /\ RoundTrips

\* C3 (as claimed): parse_filename raises for no name of the directory, and a
\* list request with well-formed naive time filters answers 200 leaving out
\* every name that does not decode.
C3_ParseNeverRaises ==
    (/\ resp.op = "list"
     /\ resp.from_time.kind \in {"none", "naive"}
     /\ resp.to_time.kind \in {"none", "naive"})
    => /\ \A f \in DOMAIN files : parse_filename(f).kind \in {"ok", "none"}
       /\ resp.code = 200
       /\ \A f \in DataNames : Decodable(f)

\* C4: in a 200 list response every returned entry overlaps the window, and
\* when the limit truncates nothing the returned entries are exactly the
\* decodable entries of the requested device whose end is not before from_time
\* and whose start is not after to_time; so [10:00, 10:30] is returned for
\* from_time 10:20 and left out for from_time 10:31.
C4_OverlapFilter ==
    ListOk =>
      /\ \A f \in DataNames : Overlaps(f, resp.from_time, resp.to_time)
      /\ NotTruncated => DataNames = Survivors
      /\ \A f \in DOMAIN files :
            (Entry1000to1030(f) /\ resp.mac = <<>> /\ resp.to_time = NoTime
             /\ NotTruncated)
            => /\ resp.from_time = NaiveTime(At(10, 20, 0)) => f \in DataNames
               /\ resp.from_time = NaiveTime(At(10, 31, 0)) => f \notin DataNames

C4_Witness ==
    /\ ListOk /\ resp.from_time = NaiveTime(At(10, 20, 0))
    /\ \E f \in DataNames : Entry1000to1030(f)
    /\ \E f \in DOMAIN files : Decodable(f) /\ f \notin DataNames

\* C5: in a 200 list response data holds min(n, max(1, limit)) of the n
\* surviving entries, without repetition, in non-decreasing order of start,
\* and no surviving entry left out starts before a returned one; a limit <= 0
\* returns exactly one entry when n >= 1.
C5_SortedAndCapped ==
    ListOk =>
      /\ Len(resp.data) = Min(Cardinality(Survivors), Max(1, resp.limit))
      /\ DataNames \subseteq Survivors
      /\ Cardinality(DataNames) = Len(resp.data)
      /\ \A i, j \in 1..Len(resp.data) :
            i < j => ~DtLess(resp.data[j].start_dt, resp.data[i].start_dt)
      /\ \A f \in Survivors \ DataNames : \A i \in 1..Len(resp.data) :
            ~DtLess(parse_filename(f).startLocal, resp.data[i].start_dt)
      /\ \A i \in 1..Len(resp.data) :
            resp.data[i].start_dt = parse_filename(resp.data[i].filename).startLocal
      /\ (resp.limit <= 0 /\ Survivors # {}) => Len(resp.data) = 1

C5_Witness ==
    /\ ListOk /\ resp.limit <= 0 /\ Cardinality(Survivors) = 2 /\ Len(resp.data) = 1
    /\ \E f \in Survivors \ DataNames :
          DtLess(resp.data[1].start_dt, parse_filename(f).startLocal)

\* C6: in a 200 list response with a mac filter every returned entry has the
\* filter's device id up to letter case, and when the limit truncates nothing
\* every decodable entry inside the window with that device id is returned;
\* without a mac filter no entry inside the window is dropped.
C6_MacFilter ==
    ListOk =>
      /\ resp.mac # <<>> => \A i \in 1..Len(resp.data) :
                               Lower(resp.data[i].mac) = Lower(resp.mac)
      /\ (resp.mac # <<>> /\ NotTruncated) =>
            \A f \in DOMAIN files :
               (Decodable(f) /\ Overlaps(f, resp.from_time, resp.to_time)
                /\ SameDevice(f, resp.mac)) => f \in DataNames
      /\ (resp.mac = <<>> /\ NotTruncated) =>
            \A f \in DOMAIN files :
               (Decodable(f) /\ Overlaps(f, resp.from_time, resp.to_time))
               => f \in DataNames

C6_Witness ==
    /\ ListOk /\ resp.mac = <<"a", "b">>
    /\ \E i \in 1..Len(resp.data) : resp.data[i].mac = <<"A", "B">>
    /\ \E f \in DOMAIN files : Decodable(f) /\ parse_filename(f).mac = <<"a", "c">>
    /\ \A i \in 1..Len(resp.data) : resp.data[i].mac # <<"a", "c">>

InvalidMeta(meta) ==
    \/ meta.kind \in {"notutf8", "notjson"}
    \/ Required \ meta.has # {}
    \/ ~meta.startTime.num
    \/ ~meta.endTime.num

\* C7 (as claimed): an upload whose metadata is not UTF-8, not JSON, lacks a
\* required field or has a non-numeric startTime or endTime is answered 400
\* and leaves the stored files as they were.
C7_InvalidUploadIs400 ==
    [][(resp'.op = "upload" /\ InvalidMeta(resp'.meta))
         => (resp'.code = 400 /\ files' = files)]_vars

\* days from 1970-01-01 to the date (y, m, d)
DaysFromCivil(y, m, d) ==
    LET yy  == IF m <= 2 THEN y - 1 ELSE y
        era == yy \div 400
        yoe == yy - era * 400
        mp  == IF m > 2 THEN m - 3 ELSE m + 9
        doy == (153 * mp + 2) \div 5 + d - 1
        doe == yoe * 365 + yoe \div 4 - yoe \div 100 + doy
    IN  era * 146097 + doe - 719468

\* <<days, second of the day, microsecond>> after the epoch of a local datetime
SinceEpoch(dt) ==
    <<DaysFromCivil(dt.year, dt.month, dt.day),
      (dt.hour * 60 + dt.minute) * 60 + dt.second - TzOffsetSeconds, dt.microsecond>>

\* the same for e = 1000*q + r milliseconds and for e seconds
AsMillis(e) == <<e.q \div 86400, e.q % 86400, e.r * 1000>>

AsSeconds(e) ==
    <<1000 * (e.q \div 86400) + (1000 * (e.q % 86400) + e.r) \div 86400,
      (1000 * (e.q % 86400) + e.r) % 86400, 0>>

\* 0001-01-02 .. 9999-12-31, the days datetime.fromtimestamp accepts
InRange(t) == t[1] >= -719161 /\ t[1] <= 2932896

AbsAtLeastThreshold(e) ==
    e.q >= MsThresholdQ \/ e.q < -MsThresholdQ \/ (e.q = -MsThresholdQ /\ e.r = 0)

Is(result, t) ==
    IF InRange(t) THEN result.kind = "ok" /\ SinceEpoch(result.dt) = t
    ELSE result.kind = "raise"

\* C8 (as claimed): e with |e| >= 10^12 is e milliseconds after the epoch, any
\* other e is e seconds after the epoch.
C8_UnitByAbsoluteValue ==
    tout.set =>
      Is(tout.result, IF AbsAtLeastThreshold(tin.ts) THEN AsMillis(tin.ts)
                      ELSE AsSeconds(tin.ts))

\* C8 (amended): e >= 10^12 is e milliseconds after the epoch and every other
\* e, the negative ones of any magnitude included, is e seconds after the
\* epoch (the conversion raises when that instant is outside 0001-01-02 ..
\* 9999-12-31); so s and 1000*s give the same instant for 10^9 <= s < 10^12.
C8_UnitBySignedValue ==
    tout.set =>
      /\ Is(tout.result, IF tin.ts.q >= MsThresholdQ THEN AsMillis(tin.ts)
                         ELSE AsSeconds(tin.ts))
      /\ (tin.ts.q >= 1000000 /\ tin.ts.q <= 2147482) =>
            /\ tout.result.kind = "ok"
            /\ ts_to_local_datetime(Epoch(1000 * tin.ts.q + tin.ts.r, 0)) = tout.result

C8_Witness ==
    /\ tout.set /\ tin.ts = Epoch(1770026400, 0)
    /\ tout.result = ts_to_local_datetime(Epoch(1770026, 400))
    /\ tout.result.kind = "ok" /\ tout.result.dt = At(10, 0, 0)

\* C9 (as claimed): the filename an upload hands to open() holds no path
\* separator.
C9_SingleComponent ==
    (resp.op = "upload" /\ resp.opened) => ~HasSeparator(resp.filename)

\* C10 (as claimed): count equals the number of items of data.
C10_CountIsLenData ==
    ListOk => resp.count = Len(resp.data)

\* C10 (amended): count is the number of entries that survive the filters,
\* before the limit is applied, and data holds the first min(count, max(1,
\* limit)) of them; count equals the length of data only when count <=
\* max(1, limit).
C10_CountIsSurvivors ==
    ListOk =>
      /\ resp.count = Cardinality(Survivors)
      /\ Len(resp.data) = Min(resp.count, Max(1, resp.limit))
      /\ resp.count >= Len(resp.data)

C10_Witness ==
    ListOk /\ resp.count = 2 /\ Len(resp.data) = 1 /\ resp.limit = 1

=============================================================================
